---------------------------- MODULE Spec2Model ----------------------------
(***************************************************************************)
(* Model of PhysPanelCPP's touch-keyboard activation                       *)
(* (src/PhysPanelCPP/KeyboardManager.cpp): the process probe               *)
(* IsProcessRunning, the process waiter WaitForProcess, the visibility     *)
(* detector IsTouchKeyboardVisible and the controller StartTouchKeyboard.  *)
(*                                                                         *)
(* Time is in milliseconds.  The code reads the clock only as the          *)
(* difference now() - start of the loop it is in, so the model keeps that  *)
(* difference, `elapsed`: it is 0 where the code takes a loop's start, it  *)
(* grows only in sleep_for, by exactly the requested duration, and every   *)
(* other call takes no time.                                               *)
(* HandleStartKeyboard (src/PhysPanelCPP/PhysPanelCPP.cpp) is the caller   *)
(* of StartTouchKeyboard: its step turns the call's outcome into the exit  *)
(* code.  MeteredSpec runs the same program with a stopwatch and a probe   *)
(* log, RaceSpec runs two calls side by side on one process table, and     *)
(* LiveSpec adds that the thread keeps running.                            *)
(* Executable names are sequences of UTF-16 code units.                    *)
(* HRESULTs are signed 32-bit integers: negative means failure.            *)
(***************************************************************************)
EXTENDS Integers, Sequences, FiniteSets, TLC

VARIABLES
    entry,          \* the function that was called: "StartTouchKeyboard" or "WaitForProcess"
    pc,             \* position of the single thread of control
    elapsed,        \* now() - start (WaitForProcess, connection loop), now() - pollStart
    window,         \* the ApplicationFrameWindow host window as the OS reports it
    wfpName,        \* WaitForProcess: processName
    wfpTimeout,     \* WaitForProcess: timeout, ms
    wfpResult,      \* WaitForProcess: the value returned
    visible,        \* StartTouchKeyboard: visible
    comInitialized, \* StartTouchKeyboard: comInitialized
    pTip,           \* StartTouchKeyboard: pTip ("NULL" or "ITipInvocation")
    exc,            \* exception in flight inside the try block, or "none"
    outcome,        \* "running", "returned", or the type of the exception that left the call
    comDepth,       \* the thread's COM initialization count (CoInitializeEx - CoUninitialize)
    calls,          \* how many times each external operation has been called
    entryTruth,     \* the process table at the call's first step: "?" before it, then
                    \* "absent", "listed" (running, snapshot taken) or "unlisted" (running,
                    \* snapshot failed)
    pathTruth,      \* what is at the executable's path: "?" before the lookup, then
                    \* "no_folder", "missing", "directory" or "file"
    failPoint,      \* which failure branch of the code was taken, or "none"
    exitCode,       \* what HandleStartKeyboard returned: {} until it returns, then { code }
    meter,          \* a stopwatch and a log of WaitForProcess's probes, kept when meter.on
    race,           \* two calls of StartTouchKeyboard by two processes, and the process
                    \* table both read
    probe,          \* one call of IsProcessRunning on its own: arguments, result
    panel           \* the display-size record in the OS state store, and one
                    \* SetDisplaySize followed by one GetDisplaySize

vars == << entry, pc, elapsed, window, wfpName, wfpTimeout, wfpResult, visible,
           comInitialized, pTip, exc, outcome, comDepth, calls, entryTruth,
           pathTruth, failPoint, exitCode, meter, race, probe, panel >>

---------------------------------------------------------------------------
(* Program constants *)

\* L"TabTip.exe"
TABTIP_PROCESS_NAME == << 84, 97, 98, 84, 105, 112, 46, 101, 120, 101 >>
\* L"explorer.exe"
SHELL_PROCESS_NAME == << 101, 120, 112, 108, 111, 114, 101, 114, 46, 101, 120, 101 >>
\* std::chrono::seconds(30)
SHELL_READY_TIMEOUT == 30
\* std::chrono::seconds(10)
COM_SERVICE_TIMEOUT == 10
\* std::chrono::seconds(5)
POST_LAUNCH_DELAY == 5
\* sleep_for(milliseconds(500)) in WaitForProcess
WAIT_POLL_MS == 500
\* sleep_for(milliseconds(250)) in the visibility poll
VISIBILITY_POLL_MS == 250
\* sleep_for(milliseconds(250)) in the connection loop
CONNECT_RETRY_MS == 250

\* std::chrono::seconds converted to the milliseconds the clock counts
Seconds(s) == s * 1000

---------------------------------------------------------------------------
(* Bounds of the model *)

\* WaitForProcess called on its own: timeouts 0, TimeoutStep, ..., MaxTimeoutSteps * TimeoutStep
MaxTimeoutSteps == 8
TimeoutStep == 200

Timeouts == { k * TimeoutStep : k \in 0..MaxTimeoutSteps }

---------------------------------------------------------------------------
(* The environment: process table, window, results of OS calls *)

\* Executable names that may show up in a snapshot (entry.szExeFile); every
\* snapshot is some subset of them:
\* "TabTip.exe", "TABTIP.EXE", "explorer.exe", "TabTip32.exe"
ProcUniverse ==
    { << 84, 97, 98, 84, 105, 112, 46, 101, 120, 101 >>,
      << 84, 65, 66, 84, 73, 80, 46, 69, 88, 69 >>,
      << 101, 120, 112, 108, 111, 114, 101, 114, 46, 101, 120, 101 >>,
      << 84, 97, 98, 84, 105, 112, 51, 50, 46, 101, 120, 101 >> }

\* HRESULT values an OS call may return: S_OK, S_FALSE, RPC_E_CHANGED_MODE (0x80010106)
HResults == { 0, 1, -2147417850 }

SUCCEEDED(hr) == hr >= 0
FAILED(hr) == hr < 0

\* GetFileAttributesW results: INVALID_FILE_ATTRIBUTES ((DWORD)-1),
\* DIRECTORY (0x10), ARCHIVE (0x20), DIRECTORY|ARCHIVE (0x30), NORMAL (0x80)
FileAttributes == { -1, 16, 32, 48, 128 }

\* fileAttr & FILE_ATTRIBUTE_DIRECTORY
HasDirectoryBit(fileAttr) == (fileAttr \div 16) % 2 = 1

\* The file check without the directory test
ExecutableMissing_NoDirectoryTest(fileAttr) == fileAttr = -1

\* fileAttr == INVALID_FILE_ATTRIBUTES || (fileAttr & FILE_ATTRIBUTE_DIRECTORY)
ExecutableMissing(fileAttr) == fileAttr = -1 \/ HasDirectoryBit(fileAttr)

\* States of the host window found by class name
NoWindow == [exists |-> FALSE, cloaked |-> FALSE, wsVisible |-> FALSE, iconic |-> FALSE]
ShownWindow == [exists |-> TRUE, cloaked |-> FALSE, wsVisible |-> TRUE, iconic |-> FALSE]
CloakedWindow == [exists |-> TRUE, cloaked |-> TRUE, wsVisible |-> TRUE, iconic |-> FALSE]
HiddenWindow == [exists |-> TRUE, cloaked |-> FALSE, wsVisible |-> FALSE, iconic |-> FALSE]
IconicWindow == [exists |-> TRUE, cloaked |-> FALSE, wsVisible |-> TRUE, iconic |-> TRUE]

KbdWindows == { NoWindow, ShownWindow, CloakedWindow, HiddenWindow, IconicWindow }

\* Whether the user can see the window
OnScreen(w) == w.exists /\ ~w.cloaked /\ w.wsVisible /\ ~w.iconic

\* ITipInvocation::Toggle: a keyboard on screen is dismissed, any other is shown
ToggleWindow(w) == IF OnScreen(w) THEN CloakedWindow ELSE ShownWindow

\* Exceptions a call inside the try block may raise that the code does not throw itself
RaisedKinds == { "_com_error", "std::bad_alloc", "unknown" }

---------------------------------------------------------------------------
(* Pure functions of the program *)

\* towlower on the code units _wcsicmp compares
towlower(c) == IF c \in 65..90 THEN c + 32 ELSE c

\* _wcsicmp: difference of the first pair of lowercased code units that differ
\* (the terminating null is 0), 0 when there is none
RECURSIVE wcsicmp(_, _)
wcsicmp(a, b) ==
    IF a = << >> /\ b = << >> THEN 0
    ELSE LET ca == IF a = << >> THEN 0 ELSE towlower(Head(a))
             cb == IF b = << >> THEN 0 ELSE towlower(Head(b))
         IN  IF ca # cb THEN ca - cb
             ELSE wcsicmp(Tail(a), Tail(b))

\* wcscmp: the same comparison without lowercasing
RECURSIVE wcscmp(_, _)
wcscmp(a, b) ==
    IF a = << >> /\ b = << >> THEN 0
    ELSE LET ca == IF a = << >> THEN 0 ELSE Head(a)
             cb == IF b = << >> THEN 0 ELSE Head(b)
         IN  IF ca # cb THEN ca - cb
             ELSE wcscmp(Tail(a), Tail(b))

\* IsProcessRunning with a case-sensitive comparison
IsProcessRunning_CaseSensitive(snapshotOk, table, processName) ==
    /\ snapshotOk
    /\ \E szExeFile \in table : wcscmp(szExeFile, processName) = 0

\* IsProcessRunning without the test of the snapshot handle
IsProcessRunning_NoHandleTest(snapshotOk, table, processName) ==
    \E szExeFile \in table : wcsicmp(szExeFile, processName) = 0

\* IsProcessRunning: snapshotOk says that CreateToolhelp32Snapshot gave a handle
\* and Process32FirstW an entry; table is the entries Process32FirstW/NextW walk
IsProcessRunning(snapshotOk, table, processName) ==
    /\ snapshotOk
    /\ \E szExeFile \in table : wcsicmp(szExeFile, processName) = 0

\* WaitForProcess's loop condition with the deadline one poll interval late
WaitLoopCondition_Late(sinceStart, timeout) ==
    sinceStart <= timeout + WAIT_POLL_MS

\* WaitForProcess's loop condition with the deadline itself still inside
WaitLoopCondition_AtDeadline(sinceStart, timeout) ==
    sinceStart <= timeout

\* WaitForProcess's loop condition with twice the budget
WaitLoopCondition_TwiceTheBudget(sinceStart, timeout) ==
    sinceStart < 2 * timeout

\* WaitForProcess's loop condition: now() - start < timeout
WaitLoopCondition(sinceStart, timeout) ==
    sinceStart < timeout

\* The visibility poll's loop condition with the deadline itself still inside
PollLoopCondition_AtDeadline(sincePollStart) ==
    sincePollStart <= Seconds(COM_SERVICE_TIMEOUT)

\* The visibility poll's loop condition: now() - pollStart < COM_SERVICE_TIMEOUT
PollLoopCondition(sincePollStart) ==
    sincePollStart < Seconds(COM_SERVICE_TIMEOUT)

\* The connection loop's condition with the deadline itself still inside
ConnectLoopCondition_AtDeadline(sinceStart) ==
    sinceStart <= Seconds(COM_SERVICE_TIMEOUT)

\* The connection loop's condition: now() - start < COM_SERVICE_TIMEOUT
ConnectLoopCondition(sinceStart) ==
    sinceStart < Seconds(COM_SERVICE_TIMEOUT)

\* sleep_for on a clock that starts again from 0 every second
sleep_for_ClockWraps(sinceStart, ms) == (sinceStart + ms) % 1000

\* std::this_thread::sleep_for(ms): what now() - start is when it returns, if it
\* was sinceStart when it was called
sleep_for(sinceStart, ms) == sinceStart + ms

\* IsTouchKeyboardVisible: dwmOk is SUCCEEDED(DwmGetWindowAttribute(...))
IsTouchKeyboardVisible(w, dwmOk) ==
    IF ~w.exists THEN FALSE
    ELSE IF dwmOk /\ w.cloaked THEN FALSE
    ELSE IF ~w.wsVisible \/ w.iconic THEN FALSE
    ELSE TRUE

---------------------------------------------------------------------------
(* Initial state: one call, of StartTouchKeyboard or of WaitForProcess *)

NoCalls ==
    [ folder |-> 0, attr |-> 0, shellWait |-> 0, launch |-> 0, settle |-> 0,
      visProbe |-> 0, coInit |-> 0, create |-> 0, toggle |-> 0, release |-> 0,
      coUninit |-> 0, toggleFailed |-> 0, toggleShowed |-> 0,
      seenOnScreen |-> 0 ]

\* What the meter holds before anything has happened: the time slept so far,
\* WaitForProcess's probes (how many, when the latest was taken as now() - start,
\* how many were positive) and whether WaitForProcess returned false while the
\* process was running
NoMeter(metering) ==
    [ on |-> metering, slept |-> 0, probes |-> 0, lastProbeAt |-> -1,
      positives |-> 0, missed |-> FALSE ]

\* The two processes that run the startkeyboard command at the same time
Attempts == { 1, 2 }

\* Two calls about to start.  table is the process table (executable names),
\* requests the launch requests whose process has not started yet; for each
\* call: at is its position, sinceStart its now() - start in WaitForProcess,
\* launches how often it called ShellExecuteW, check what its already-running
\* check was up against ("?" before it, then "absent", "listed" or "unlisted")
TwoCalls ==
    [ table |-> { },
      requests |-> 0,
      at |-> [p \in Attempts |-> "stk_entry"],
      sinceStart |-> [p \in Attempts |-> 0],
      launches |-> [p \in Attempts |-> 0],
      check |-> [p \in Attempts |-> "?"] ]

\* No call of IsProcessRunning on its own yet.  at is "idle", "called" or
\* "returned"; snapshots counts the calls of CreateToolhelp32Snapshot
NoProbe ==
    [ at |-> "idle", processName |-> << >>, table |-> { }, snapshotOk |-> FALSE,
      snapshots |-> 0, found |-> FALSE ]

\* UINT 0 as its four bytes
UINT_ZERO == << 0, 0, 0, 0 >>

\* Nothing set or read yet, and no data in the state store.  at is "idle",
\* "set" or "got"; data is the bytes the store holds, ours says that the last
\* write to it was SetDisplaySize's; status and bufferSize are what the query
\* gave, result is GetDisplaySize's optional ({} for std::nullopt)
NoPanel ==
    [ at |-> "idle",
      dims |-> [WidthMm |-> UINT_ZERO, HeightMm |-> UINT_ZERO],
      data |-> << >>,
      ours |-> FALSE,
      status |-> 0,
      bufferSize |-> 0,
      result |-> { } ]

Start(metering) ==
    /\ race = TwoCalls
    /\ probe = NoProbe
    /\ panel = NoPanel
    /\ entry \in { "StartTouchKeyboard", "WaitForProcess" }
    /\ pc = IF entry = "StartTouchKeyboard" THEN "stk_entry" ELSE "wfp_loop"
    /\ elapsed = 0
    /\ window \in KbdWindows
    /\ wfpName \in IF entry = "WaitForProcess"
                   THEN { TABTIP_PROCESS_NAME, SHELL_PROCESS_NAME }
                   ELSE { SHELL_PROCESS_NAME }
    /\ wfpTimeout \in IF entry = "WaitForProcess"
                      THEN Timeouts
                      ELSE { Seconds(SHELL_READY_TIMEOUT) }
    /\ wfpResult = FALSE
    /\ visible = FALSE
    /\ comInitialized = FALSE
    /\ pTip = "NULL"
    /\ exc = "none"
    /\ outcome = "running"
    /\ comDepth = 0
    /\ calls = NoCalls
    /\ entryTruth = "?"
    /\ pathTruth = "?"
    /\ failPoint = "none"
    /\ exitCode = { }
    /\ meter = NoMeter(metering)

\* The meter is off: no state is told apart by what it would hold
Init == Start(FALSE)

\* The same calls with the meter running; the keyboard's window is either
\* absent or on screen
MeteredInit ==
    /\ Start(TRUE)
    /\ window \in { NoWindow, ShownWindow }

\* The meter after sleep_for(ms)
NoteSleep(m, ms) ==
    IF m.on THEN [m EXCEPT !.slept = @ + ms] ELSE m

\* The meter after a probe by WaitForProcess, taken when now() - start = at
NoteProbe(m, at, positive) ==
    IF m.on
    THEN [m EXCEPT !.probes = @ + 1, !.lastProbeAt = at,
                   !.positives = @ + (IF positive THEN 1 ELSE 0)]
    ELSE m

\* The meter after WaitForProcess gave up: running says whether the process
\* was in the table at that moment
NoteMiss(m, running) ==
    IF m.on THEN [m EXCEPT !.missed = running] ELSE m

\* Whether an executable of that name really is in the process table
Running(table, processName) ==
    \E e \in table : [i \in DOMAIN e |-> towlower(e[i])]
                       = [i \in DOMAIN processName |-> towlower(processName[i])]

\* entryTruth after a step taken while the process table is `table`
NoteTruth(table, snapshotOk, processName) ==
    IF entryTruth # "?" THEN entryTruth
    ELSE IF ~Running(table, processName) THEN "absent"
    ELSE IF snapshotOk THEN "listed"
    ELSE "unlisted"

\* What really is at the executable's path, given what the two lookups return
PathTruth(hr_path, fileAttr) ==
    IF hr_path < 0 THEN "no_folder"
    ELSE IF fileAttr = -1 THEN "missing"
    ELSE IF fileAttr \in { 16, 48 } THEN "directory"
    ELSE "file"

---------------------------------------------------------------------------
(* WaitForProcess: one turn of its loop.  The process table at that moment *)
(* (table) and whether a snapshot of it can be taken are the environment's *)

WaitForProcessReturn(value) ==
    /\ wfpResult' = value
    /\ pc' = IF entry = "WaitForProcess" THEN "done" ELSE "shell_checked"
    /\ outcome' = IF entry = "WaitForProcess" THEN "returned" ELSE outcome

WaitForProcess ==
    /\ pc = "wfp_loop"
    /\ \E table \in SUBSET ProcUniverse, snapshotOk \in BOOLEAN :
         /\ entryTruth' = NoteTruth(table, snapshotOk, wfpName)
         /\ IF WaitLoopCondition(elapsed, wfpTimeout)
            THEN IF IsProcessRunning(snapshotOk, table, wfpName)
                 THEN /\ WaitForProcessReturn(TRUE)
                      /\ elapsed' = elapsed
                      /\ meter' = NoteProbe(meter, elapsed, TRUE)
                 ELSE /\ elapsed' = sleep_for(elapsed, WAIT_POLL_MS)
                      /\ meter' = NoteSleep(NoteProbe(meter, elapsed, FALSE),
                                            WAIT_POLL_MS)
                      /\ UNCHANGED << pc, wfpResult, outcome >>
            ELSE /\ WaitForProcessReturn(FALSE)
                 /\ elapsed' = elapsed
                 /\ meter' = NoteMiss(meter, Running(table, wfpName))
    /\ UNCHANGED << panel, probe, race, exitCode, entry, window, wfpName, wfpTimeout,
                    visible, comInitialized, pTip, exc, comDepth, calls,
                    pathTruth, failPoint >>

---------------------------------------------------------------------------
(* StartTouchKeyboard *)

\* The exception types with the shell-wait timeout reported as ComponentNotFound
ThrownAt_ShellNotFound(point) ==
    IF point \in { "folder", "file", "shell" }
    THEN "TabTipNotFoundException"
    ELSE "TabTipActivationException"

\* The exception type thrown at each failure branch of StartTouchKeyboard
ThrownAt(point) ==
    CASE point = "folder" -> "TabTipNotFoundException"
      [] point = "file" -> "TabTipNotFoundException"
      [] point = "shell" -> "TabTipActivationException"
      [] point = "coinit" -> "TabTipActivationException"
      [] point = "connect" -> "TabTipActivationException"

\* throw outside the try block: the exception leaves the call
ThrowOut(point) ==
    /\ failPoint' = point
    /\ outcome' = ThrownAt(point)
    /\ pc' = "done"
    /\ exc' = exc

\* throw inside the try block: control goes to the handlers
ThrowInTry(point) ==
    /\ failPoint' = point
    /\ exc' = ThrownAt(point)
    /\ pc' = "catch"
    /\ outcome' = outcome

\* The already-running check
AlreadyRunningCheck ==
    /\ pc = "stk_entry"
    /\ \E table \in SUBSET ProcUniverse, snapshotOk \in BOOLEAN :
         /\ entryTruth' = NoteTruth(table, snapshotOk, TABTIP_PROCESS_NAME)
         /\ IF IsProcessRunning(snapshotOk, table, TABTIP_PROCESS_NAME)
            THEN /\ pc' = "done"
                 /\ outcome' = "returned"
            ELSE /\ pc' = "resolve"
                 /\ outcome' = outcome
    /\ UNCHANGED << panel, probe, race, exitCode, meter, entry, elapsed, window, wfpName,
                    wfpTimeout, wfpResult, visible, comInitialized, pTip, exc,
                    comDepth, calls, pathTruth, failPoint >>

\* Path resolution, the file check, and the call of WaitForProcess for the shell
ResolvePath ==
    /\ pc = "resolve"
    /\ \E hr_path \in HResults, fileAttr \in FileAttributes :
         /\ pathTruth' = PathTruth(hr_path, fileAttr)
         /\ IF FAILED(hr_path)
            THEN /\ calls' = [calls EXCEPT !.folder = @ + 1]
                 /\ ThrowOut("folder")
                 /\ UNCHANGED << comInitialized, elapsed >>
            ELSE IF ExecutableMissing(fileAttr)
            THEN /\ calls' = [calls EXCEPT !.folder = @ + 1, !.attr = @ + 1]
                 /\ ThrowOut("file")
                 /\ UNCHANGED << comInitialized, elapsed >>
            ELSE /\ calls' = [calls EXCEPT !.folder = @ + 1, !.attr = @ + 1,
                                           !.shellWait = @ + 1]
                 /\ comInitialized' = FALSE
                 /\ elapsed' = 0
                 /\ pc' = "wfp_loop"
                 /\ UNCHANGED << exc, outcome, failPoint >>
    /\ UNCHANGED << panel, probe, race, exitCode, meter, entry, window, wfpName, wfpTimeout,
                    wfpResult, visible, pTip, comDepth, entryTruth >>

\* After the shell wait: the timeout error, or the launch and the settle delay.
\* sleep_for(POST_LAUNCH_DELAY) ends before pollStart is taken, so the poll
\* starts with elapsed = 0; calls.settle counts the delay.
LaunchIf(shellSeen) ==
    /\ pc = "shell_checked"
    /\ IF ~shellSeen
       THEN /\ ThrowInTry("shell")
            /\ UNCHANGED << elapsed, calls, visible, meter >>
       ELSE /\ calls' = [calls EXCEPT !.launch = @ + 1, !.settle = @ + 1]
            /\ meter' = NoteSleep(meter, Seconds(POST_LAUNCH_DELAY))
            /\ visible' = FALSE
            /\ elapsed' = 0
            /\ pc' = "vis_loop"
            /\ UNCHANGED << exc, outcome, failPoint >>
    /\ UNCHANGED << panel, probe, race, exitCode, entry, window, wfpName, wfpTimeout,
                    wfpResult, comInitialized, pTip, comDepth, entryTruth,
                    pathTruth >>

\* The launch without the test of WaitForProcess's result
Launch_Always == LaunchIf(TRUE)

\* if (!WaitForProcess(SHELL_PROCESS_NAME, SHELL_READY_TIMEOUT)) throw ...;
Launch == LaunchIf(wfpResult)

\* One turn of the visibility poll (calls.seenOnScreen counts the polls that
\* reported a keyboard which really was on screen)
VisibilityPoll ==
    /\ pc = "vis_loop"
    /\ IF PollLoopCondition(elapsed)
       THEN \E dwmOk \in BOOLEAN :
              /\ calls' = [calls EXCEPT
                            !.visProbe = @ + 1,
                            !.seenOnScreen =
                                @ + (IF IsTouchKeyboardVisible(window, dwmOk)
                                        /\ OnScreen(window) THEN 1 ELSE 0)]
              /\ IF IsTouchKeyboardVisible(window, dwmOk)
                 THEN /\ visible' = TRUE
                      /\ pc' = "polled"
                      /\ UNCHANGED << elapsed, meter >>
                 ELSE /\ elapsed' = sleep_for(elapsed, VISIBILITY_POLL_MS)
                      /\ meter' = NoteSleep(meter, VISIBILITY_POLL_MS)
                      /\ UNCHANGED << visible, pc >>
       ELSE /\ pc' = "polled"
            /\ UNCHANGED << elapsed, calls, visible, meter >>
    /\ UNCHANGED << panel, probe, race, exitCode, entry, window, wfpName, wfpTimeout,
                    wfpResult, comInitialized, pTip, exc, outcome, comDepth,
                    entryTruth, pathTruth, failPoint >>

\* if (cond): the runtime initialization; else: nothing to close
InitializeRuntimeIf(cond) ==
    /\ pc = "polled"
    /\ IF cond
       THEN \E hr \in HResults :
              /\ calls' = [calls EXCEPT !.coInit = @ + 1]
              /\ IF FAILED(hr)
                 THEN /\ ThrowInTry("coinit")
                      /\ UNCHANGED << comInitialized, comDepth, pTip, elapsed >>
                 ELSE /\ comInitialized' = TRUE
                      /\ comDepth' = comDepth + 1
                      /\ pTip' = "NULL"
                      /\ elapsed' = 0
                      /\ pc' = "conn_loop"
                      /\ UNCHANGED << exc, outcome, failPoint >>
       ELSE /\ pc' = "epilogue"
            /\ UNCHANGED << calls, comInitialized, comDepth, pTip, elapsed, exc,
                            outcome, failPoint >>
    /\ UNCHANGED << panel, probe, race, exitCode, meter, entry, window, wfpName, wfpTimeout,
                    wfpResult, visible, entryTruth, pathTruth >>

\* The runtime initialization with the test of visible inverted
InitializeRuntime_IfNotVisible == InitializeRuntimeIf(~visible)

\* The runtime initialization without the test of visible
InitializeRuntime_Always == InitializeRuntimeIf(TRUE)

\* if (visible) ... else ...
InitializeRuntime == InitializeRuntimeIf(visible)

\* One turn of the connection loop; the call may raise instead of returning
Connect ==
    /\ pc = "conn_loop"
    /\ IF ConnectLoopCondition(elapsed)
       THEN /\ calls' = [calls EXCEPT !.create = @ + 1]
            /\ \/ \E hr \in HResults :
                    IF SUCCEEDED(hr)
                    THEN /\ pTip' = "ITipInvocation"
                         /\ pc' = "connected"
                         /\ UNCHANGED << elapsed, exc, failPoint, meter >>
                    ELSE /\ elapsed' = sleep_for(elapsed, CONNECT_RETRY_MS)
                         /\ meter' = NoteSleep(meter, CONNECT_RETRY_MS)
                         /\ UNCHANGED << pTip, pc, exc, failPoint >>
               \/ \E e \in RaisedKinds :
                    /\ exc' = e
                    /\ failPoint' = "raised"
                    /\ pc' = "catch"
                    /\ UNCHANGED << elapsed, pTip, meter >>
       ELSE /\ pc' = "connected"
            /\ UNCHANGED << elapsed, calls, pTip, exc, failPoint, meter >>
    /\ UNCHANGED << panel, probe, race, exitCode, entry, window, wfpName, wfpTimeout,
                    wfpResult, visible, comInitialized, outcome, comDepth,
                    entryTruth, pathTruth >>

\* pTip->Toggle(GetShellWindow()) with pTip->Release() left out
ToggleAndRelease_NoRelease(hr) ==
    [calls EXCEPT !.toggle = @ + 1,
                  !.toggleFailed = @ + (IF FAILED(hr) THEN 1 ELSE 0)]

\* pTip->Toggle(GetShellWindow()); pTip->Release(); as the calls they add: hr is
\* what Toggle returns, which the code does not look at (calls.toggleFailed
\* counts the Toggle calls that returned a failure, calls.toggleShowed those
\* that put a keyboard on screen that was not there)
ToggleAndRelease(hr) ==
    [calls EXCEPT !.toggle = @ + 1, !.release = @ + 1,
                  !.toggleFailed = @ + (IF FAILED(hr) THEN 1 ELSE 0),
                  !.toggleShowed = @ + (IF SUCCEEDED(hr) /\ ~OnScreen(window)
                                        THEN 1 ELSE 0)]

\* if (cond): Toggle and Release; else: the timeout error
ToggleIf(cond) ==
    /\ pc = "connected"
    /\ IF cond
       THEN /\ \E hr \in HResults :
                 /\ calls' = ToggleAndRelease(hr)
                 /\ window' = IF SUCCEEDED(hr) THEN ToggleWindow(window)
                                               ELSE window
            /\ pc' = "epilogue"
            /\ UNCHANGED << exc, outcome, failPoint >>
       ELSE /\ ThrowInTry("connect")
            /\ UNCHANGED << calls, window >>
    /\ UNCHANGED << panel, probe, race, exitCode, meter, entry, elapsed, wfpName,
                    wfpTimeout, wfpResult, visible, comInitialized, pTip,
                    comDepth, entryTruth, pathTruth >>

\* Toggle without the test of pTip
Toggle_Always == ToggleIf(TRUE)

\* if (pTip) ... else ...
Toggle == ToggleIf(pTip # "NULL")

\* CoUninitialize() left out
Uninitialize_Never == UNCHANGED << comDepth, calls >>

\* CoUninitialize() without the guard
Uninitialize_Unguarded ==
    /\ comDepth' = comDepth - 1
    /\ calls' = [calls EXCEPT !.coUninit = @ + 1]

\* if (comInitialized) CoUninitialize();
Uninitialize ==
    IF comInitialized
    THEN /\ comDepth' = comDepth - 1
         /\ calls' = [calls EXCEPT !.coUninit = @ + 1]
    ELSE UNCHANGED << comDepth, calls >>

\* The end of the try block and the normal return
Epilogue ==
    /\ pc = "epilogue"
    /\ Uninitialize
    /\ pc' = "done"
    /\ outcome' = "returned"
    /\ UNCHANGED << panel, probe, race, exitCode, meter, entry, elapsed, window, wfpName,
                    wfpTimeout, wfpResult, visible, comInitialized, pTip, exc,
                    entryTruth, pathTruth, failPoint >>

\* What each handler throws for the exception it caught
Rethrown(e) ==
    IF e = "_com_error" THEN "TabTipActivationException" ELSE e

\* The three handlers: each uninitializes if needed, then throws
Catch ==
    /\ pc = "catch"
    /\ Uninitialize
    /\ outcome' = Rethrown(exc)
    /\ pc' = "done"
    /\ UNCHANGED << panel, probe, race, exitCode, meter, entry, elapsed, window, wfpName,
                    wfpTimeout, wfpResult, visible, comInitialized, pTip, exc,
                    entryTruth, pathTruth, failPoint >>

---------------------------------------------------------------------------
(* The startkeyboard command: wmain returns what HandleStartKeyboard returns *)

NotFound == "TabTipNotFoundException"
ActivationFailed == "TabTipActivationException"

\* The exception types derived from std::exception among those that can leave
\* StartTouchKeyboard (both of the program's derive from std::runtime_error)
StdExceptions == { NotFound, ActivationFailed, "std::bad_alloc" }

\* HandleStartKeyboard with the first handler returning 0
HandlerReturns_NotFoundIsZero(o) ==
    IF o = "returned" THEN { 0 }
    ELSE IF o = NotFound THEN { 0 }
    ELSE IF o \in StdExceptions THEN { -1 }
    ELSE { }

\* HandleStartKeyboard's try block and its three handlers, for each way
\* StartTouchKeyboard can end: the value returned, none when no handler matches
HandlerReturns(o) ==
    IF o = "returned" THEN { 0 }
    ELSE IF o = NotFound THEN { -1 }
    ELSE IF o = ActivationFailed THEN { -1 }
    ELSE IF o \in StdExceptions THEN { -1 }
    ELSE { }

\* StartTouchKeyboard has ended: HandleStartKeyboard returns, or the exception
\* passes its handlers and leaves wmain
HandleStartKeyboard ==
    /\ pc = "done"
    /\ entry = "StartTouchKeyboard"
    /\ exitCode' = HandlerReturns(outcome)
    /\ pc' = IF HandlerReturns(outcome) = { } THEN "escaped" ELSE "exited"
    /\ UNCHANGED << panel, probe, race, meter, entry, elapsed, window, wfpName, wfpTimeout,
                    wfpResult, visible, comInitialized, pTip, exc, outcome,
                    comDepth, calls, entryTruth, pathTruth, failPoint >>

---------------------------------------------------------------------------
(* The environment: the window changes while the call runs *)

WindowChanges ==
    /\ pc \notin { "done", "exited", "escaped" }
    /\ \E w \in KbdWindows \ { window } : window' = w
    /\ UNCHANGED << panel, probe, race, exitCode, meter, entry, pc, elapsed, wfpName,
                    wfpTimeout, wfpResult, visible, comInitialized, pTip, exc,
                    outcome, comDepth, calls, entryTruth, pathTruth,
                    failPoint >>

Next ==
    \/ WaitForProcess
    \/ AlreadyRunningCheck
    \/ ResolvePath
    \/ Launch
    \/ VisibilityPoll
    \/ InitializeRuntime
    \/ Connect
    \/ Toggle
    \/ Epilogue
    \/ Catch
    \/ HandleStartKeyboard
    \/ WindowChanges

Spec == Init /\ [][Next]_vars

\* The steps of the program's thread
Program ==
    \/ WaitForProcess
    \/ AlreadyRunningCheck
    \/ ResolvePath
    \/ Launch
    \/ VisibilityPoll
    \/ InitializeRuntime
    \/ Connect
    \/ Toggle
    \/ Epilogue
    \/ Catch
    \/ HandleStartKeyboard

\* The keyboard's window comes on screen
KeyboardAppears ==
    /\ pc \notin { "done", "exited", "escaped" }
    /\ window = NoWindow
    /\ window' = ShownWindow
    /\ UNCHANGED << panel, probe, entry, pc, elapsed, wfpName, wfpTimeout, wfpResult, visible,
                    comInitialized, pTip, exc, outcome, comDepth, calls,
                    entryTruth, pathTruth, failPoint, exitCode, meter, race >>

\* The same program with the meter running.  What the meter reads depends on
\* the window only through the poll at which the detector first answers true
\* (the program does not read the window after that), so the window here is
\* absent until it comes on screen, which it may do before any poll, or never.
MeteredNext ==
    \/ WaitForProcess
    \/ AlreadyRunningCheck
    \/ ResolvePath
    \/ Launch
    \/ VisibilityPoll
    \/ InitializeRuntime
    \/ Connect
    \/ Toggle
    \/ Epilogue
    \/ Catch
    \/ HandleStartKeyboard
    \/ KeyboardAppears

MeteredSpec == MeteredInit /\ [][MeteredNext]_vars

---------------------------------------------------------------------------
(* Two processes call StartTouchKeyboard at the same time.  Each runs the  *)
(* code up to ShellExecuteW (lines 171-201); they share nothing but the    *)
(* process table of the machine.                                           *)

RaceInit ==
    /\ Start(FALSE)
    /\ entry = "StartTouchKeyboard"
    /\ window = NoWindow

\* The already-running check without the early return
AfterCheck_NoEarlyReturn(found) == "resolve"

\* if (IsProcessRunning(TABTIP_PROCESS_NAME)) return; : where the call is next
AfterCheck(found) == IF found THEN "done" ELSE "resolve"

\* What a check of processName is up against with the table as it is
TableTruth(snapshotOk, processName) ==
    IF ~Running(race.table, processName) THEN "absent"
    ELSE IF snapshotOk THEN "listed"
    ELSE "unlisted"

\* The already-running check of call p
RaceAlreadyRunningCheck(p) ==
    /\ race.at[p] = "stk_entry"
    /\ \E snapshotOk \in BOOLEAN :
         race' = [race EXCEPT
                    !.check[p] = TableTruth(snapshotOk, TABTIP_PROCESS_NAME),
                    !.at[p] = AfterCheck(IsProcessRunning(snapshotOk, race.table,
                                                          TABTIP_PROCESS_NAME))]

\* Path resolution and file check of call p: an exception, or the shell wait
RaceResolvePath(p) ==
    /\ race.at[p] = "resolve"
    /\ \E hr_path \in HResults, fileAttr \in FileAttributes :
         race' = [race EXCEPT
                    !.at[p] = IF FAILED(hr_path) \/ ExecutableMissing(fileAttr)
                              THEN "done" ELSE "wfp_loop",
                    !.sinceStart[p] = 0]

\* One turn of WaitForProcess(SHELL_PROCESS_NAME, SHELL_READY_TIMEOUT) in call p;
\* on a timeout the call ends with an exception
RaceWaitForShell(p) ==
    /\ race.at[p] = "wfp_loop"
    /\ \E snapshotOk \in BOOLEAN :
         IF WaitLoopCondition(race.sinceStart[p], Seconds(SHELL_READY_TIMEOUT))
         THEN IF IsProcessRunning(snapshotOk, race.table, SHELL_PROCESS_NAME)
              THEN race' = [race EXCEPT !.at[p] = "shell_checked"]
              ELSE race' = [race EXCEPT
                              !.sinceStart[p] = sleep_for(@, WAIT_POLL_MS)]
         ELSE race' = [race EXCEPT !.at[p] = "done"]

\* ShellExecuteW of call p; what the call does after it is left out
RaceLaunch(p) ==
    /\ race.at[p] = "shell_checked"
    /\ race' = [race EXCEPT !.launches[p] = @ + 1,
                            !.requests = @ + 1,
                            !.at[p] = "launched"]

\* The environment: a requested TabTip.exe starts
RaceProcessStarts ==
    /\ race.requests > 0
    /\ race' = [race EXCEPT !.requests = @ - 1,
                            !.table = @ \cup { TABTIP_PROCESS_NAME }]

\* The environment: explorer.exe starts
RaceShellStarts ==
    /\ SHELL_PROCESS_NAME \notin race.table
    /\ race' = [race EXCEPT !.table = @ \cup { SHELL_PROCESS_NAME }]

RaceNext ==
    /\ \/ \E p \in Attempts : RaceAlreadyRunningCheck(p)
       \/ \E p \in Attempts : RaceResolvePath(p)
       \/ \E p \in Attempts : RaceWaitForShell(p)
       \/ \E p \in Attempts : RaceLaunch(p)
       \/ RaceProcessStarts
       \/ RaceShellStarts
    /\ UNCHANGED << panel, probe, entry, pc, elapsed, window, wfpName, wfpTimeout, wfpResult,
                    visible, comInitialized, pTip, exc, outcome, comDepth, calls,
                    entryTruth, pathTruth, failPoint, exitCode, meter >>

RaceSpec == RaceInit /\ [][RaceNext]_vars

\* The thread keeps running (every call and every sleep_for returns); the
\* environment may act as often as it likes, or never
LiveSpec == Init /\ [][Next]_vars /\ WF_vars(Program)

\* The call has ended (and, for StartTouchKeyboard, perhaps its caller too)
Done == pc \in { "done", "exited", "escaped" }

StartedKeyboard == entry = "StartTouchKeyboard"

---------------------------------------------------------------------------
(* IsProcessRunning called on its own, with any name its callers pass (and *)
(* one in another case) against any process table                          *)

\* L"TabTip.exe", L"explorer.exe" and L"tabtip.exe"
ProbeNames ==
    { TABTIP_PROCESS_NAME, SHELL_PROCESS_NAME,
      << 116, 97, 98, 116, 105, 112, 46, 101, 120, 101 >> }

ProbeInit ==
    /\ Start(FALSE)
    /\ entry = "StartTouchKeyboard"
    /\ window = NoWindow

\* The call: processName is the argument, table and snapshotOk are the machine's
IsProcessRunningCalled ==
    /\ probe.at = "idle"
    /\ \E processName \in ProbeNames, table \in SUBSET ProcUniverse,
          snapshotOk \in BOOLEAN :
         probe' = [probe EXCEPT !.at = "called", !.processName = processName,
                                !.table = table, !.snapshotOk = snapshotOk]

\* The body: one CreateToolhelp32Snapshot, the walk if it gave a handle, return
IsProcessRunningReturns ==
    /\ probe.at = "called"
    /\ probe' = [probe EXCEPT
                    !.at = "returned",
                    !.snapshots = @ + 1,
                    !.found = IsProcessRunning(probe.snapshotOk, probe.table,
                                               probe.processName)]

ProbeNext ==
    /\ \/ IsProcessRunningCalled
       \/ IsProcessRunningReturns
    /\ UNCHANGED << entry, pc, elapsed, window, wfpName, wfpTimeout, wfpResult,
                    visible, comInitialized, pTip, exc, outcome, comDepth, calls,
                    entryTruth, pathTruth, failPoint, exitCode, meter, race,
                    panel >>

ProbeSpec == ProbeInit /\ [][ProbeNext]_vars

---------------------------------------------------------------------------
(* The display size (src/PhysPanelCPP/PanelManager.cpp): SetDisplaySize    *)
(* writes an 8-byte record to the OS state store, GetDisplaySize reads it  *)
(* back.  A UINT is its 4 bytes and a ULONGLONG its 8 bytes, least         *)
(* significant first, as they lie in the buffer; the shifts and masks of   *)
(* the code are by 32 bits, so they move and keep whole bytes.             *)

\* sizeof(ULONGLONG)
SIZEOF_ULONGLONG == 8

\* | on two bytes
RECURSIVE ByteOr(_, _)
ByteOr(x, y) ==
    IF x = 0 THEN y
    ELSE IF y = 0 THEN x
    ELSE (IF x % 2 = 1 \/ y % 2 = 1 THEN 1 ELSE 0) + 2 * ByteOr(x \div 2, y \div 2)

\* & on two bytes
RECURSIVE ByteAnd(_, _)
ByteAnd(x, y) ==
    IF x = 0 \/ y = 0 THEN 0
    ELSE (IF x % 2 = 1 /\ y % 2 = 1 THEN 1 ELSE 0) + 2 * ByteAnd(x \div 2, y \div 2)

\* (ULONGLONG)u for a UINT u: the upper half is zero
ToULONGLONG(u) == u \o UINT_ZERO

\* (UINT)q for a ULONGLONG q: the lower half
ToUINT(q) == SubSeq(q, 1, 4)

\* q << 32 and q >> 32 on a ULONGLONG
ShiftLeft32(q) == UINT_ZERO \o SubSeq(q, 1, 4)
ShiftRight32(q) == SubSeq(q, 5, 8) \o UINT_ZERO

\* a | b and a & b on ULONGLONGs
Or64(a, b) == [i \in 1..SIZEOF_ULONGLONG |-> ByteOr(a[i], b[i])]
And64(a, b) == [i \in 1..SIZEOF_ULONGLONG |-> ByteAnd(a[i], b[i])]

\* 0xFFFFFFFF as a ULONGLONG
MASK32 == << 255, 255, 255, 255, 0, 0, 0, 0 >>

\* The record with the two halves the other way round
RawDimensions_WidthUp(dims) ==
    Or64(ShiftLeft32(ToULONGLONG(dims.WidthMm)), ToULONGLONG(dims.HeightMm))

\* ((ULONGLONG)dims.HeightMm << 32) | dims.WidthMm
RawDimensions(dims) ==
    Or64(ShiftLeft32(ToULONGLONG(dims.HeightMm)), ToULONGLONG(dims.WidthMm))

\* What GetDisplaySize returns for what the query gave it: { dims } or { }
DecodeDimensions(status, bufferSize, rawDimensions) ==
    IF status = 0 /\ bufferSize = SIZEOF_ULONGLONG
    THEN { [ WidthMm |-> ToUINT(And64(rawDimensions, MASK32)),
             HeightMm |-> ToUINT(And64(ShiftRight32(rawDimensions), MASK32)) ] }
    ELSE { }

\* UINT values: 0, 1, 155, 0x0001009B, 0x80000000, 0xFFFFFFFF
UINTs ==
    { << 0, 0, 0, 0 >>, << 1, 0, 0, 0 >>, << 155, 0, 0, 0 >>, << 155, 0, 1, 0 >>,
      << 0, 0, 0, 128 >>, << 255, 255, 255, 255 >> }

\* NTSTATUS values: STATUS_SUCCESS, STATUS_UNSUCCESSFUL (0xC0000001),
\* STATUS_BUFFER_TOO_SMALL (0xC0000023)
NtStatuses == { 0, -1073741823, -1073741789 }

\* What another writer may leave in the store: nothing, 4 bytes, 8 bytes, 12 bytes
OtherData ==
    { << >>, << 155, 0, 0, 0 >>, << 44, 1, 0, 0, 200, 0, 0, 0 >>,
      << 1, 2, 3, 4, 5, 6, 7, 8, 9, 10, 11, 12 >> }

\* NtQueryWnfStateData with an 8-byte buffer that holds 0: status, the size it
\* reports and the buffer afterwards.  A call that fails leaves both as they were
NtQueryWnfStateData(data, status) ==
    IF status # 0
    THEN [ status |-> status, bufferSize |-> SIZEOF_ULONGLONG,
           rawDimensions |-> ToULONGLONG(UINT_ZERO) ]
    ELSE IF Len(data) > SIZEOF_ULONGLONG
    THEN [ status |-> -1073741789, bufferSize |-> Len(data),
           rawDimensions |-> ToULONGLONG(UINT_ZERO) ]
    ELSE [ status |-> 0, bufferSize |-> Len(data),
           rawDimensions |-> [i \in 1..SIZEOF_ULONGLONG |->
                                IF i <= Len(data) THEN data[i] ELSE 0] ]

PanelInit ==
    /\ Start(FALSE)
    /\ entry = "StartTouchKeyboard"
    /\ window = NoWindow

\* SetDisplaySize(dims): the update stores the record unless it fails
SetDisplaySize ==
    /\ panel.at = "idle"
    /\ \E WidthMm \in UINTs, HeightMm \in UINTs, status \in NtStatuses :
         LET dims == [WidthMm |-> WidthMm, HeightMm |-> HeightMm]
         IN  panel' = [panel EXCEPT
                         !.at = "set",
                         !.dims = dims,
                         !.data = IF status = 0 THEN RawDimensions(dims) ELSE @,
                         !.ours = (status = 0)]

\* The environment: another program writes to the same state name
OtherWriter ==
    /\ panel.at \in { "idle", "set" }
    /\ \E data \in OtherData \ { panel.data } :
         panel' = [panel EXCEPT !.data = data, !.ours = FALSE]

\* GetDisplaySize(): one query, then the test and the decoding
GetDisplaySize ==
    /\ panel.at \in { "idle", "set" }
    /\ \E status \in NtStatuses :
         LET q == NtQueryWnfStateData(panel.data, status)
         IN  panel' = [panel EXCEPT
                         !.at = "got",
                         !.status = q.status,
                         !.bufferSize = q.bufferSize,
                         !.result = DecodeDimensions(q.status, q.bufferSize,
                                                     q.rawDimensions)]

PanelNext ==
    /\ \/ SetDisplaySize
       \/ OtherWriter
       \/ GetDisplaySize
    /\ UNCHANGED << entry, pc, elapsed, window, wfpName, wfpTimeout, wfpResult,
                    visible, comInitialized, pTip, exc, outcome, comDepth, calls,
                    entryTruth, pathTruth, failPoint, exitCode, meter, race,
                    probe >>

PanelSpec == PanelInit /\ [][PanelNext]_vars

---------------------------------------------------------------------------
(* Claims *)

\* C1 (as amended): if TabTip.exe is running when StartTouchKeyboard is called and
\* the process-table snapshot can be taken, the call returns success at once: no
\* path lookup, shell wait, launch, sleep, visibility probe, runtime
\* initialization, connection attempt or Toggle, whatever the window's state.
C1_AlreadyRunningIsNoOp ==
    (StartedKeyboard /\ entryTruth = "listed")
        => /\ Done
           /\ outcome = "returned"
           /\ calls = NoCalls
           /\ elapsed = 0
           /\ comDepth = 0

\* C1, witness: the call has returned with TabTip.exe listed and the keyboard on screen
C1_Witness ==
    /\ StartedKeyboard
    /\ entryTruth = "listed"
    /\ Done
    /\ OnScreen(window)

\* C1 (as claimed): if TabTip.exe is running when StartTouchKeyboard is called,
\* the call returns success at once with no launch, visibility probe, runtime
\* initialization or Toggle.
C1_Original ==
    (StartedKeyboard /\ entryTruth \in { "listed", "unlisted" })
        => /\ Done
           /\ outcome = "returned"
           /\ calls.launch = 0
           /\ calls.visProbe = 0
           /\ calls.coInit = 0
           /\ calls.toggle = 0

\* C2 (as amended): Toggle is called only if the visibility detector returned true
\* during the poll, and never more than once; when it did return true, Toggle is
\* called exactly when the runtime initialization succeeded and a connection
\* attempt returned the service; a detector that is false on every poll means
\* zero Toggle calls.
C2_ToggleGated ==
    /\ calls.toggle \in { 0, 1 }
    /\ calls.toggle = 1 => visible
    /\ (StartedKeyboard /\ Done)
           => (calls.toggle = 1 <=> (visible /\ comInitialized /\ pTip # "NULL"))

\* C2, witness: an attempt that saw the keyboard and called Toggle has ended
C2_Witness ==
    /\ StartedKeyboard
    /\ Done
    /\ visible
    /\ calls.toggle = 1

\* C2 (as claimed): at the end of an attempt, Toggle was called if and only if
\* the visibility detector returned true at least once.
C2_Original ==
    (StartedKeyboard /\ Done) => (calls.toggle > 0 <=> visible)

\* C3 (as amended): at every end of an attempt that follows a successful runtime
\* initialization (success, connection failure, raised exception) the runtime
\* has been released exactly once; after a failed initialization it has not
\* been released; it is never released twice.
C3_ReleasedExactlyOnce ==
    /\ calls.coUninit \in { 0, 1 }
    /\ (Done /\ comInitialized) => calls.coUninit = 1
    /\ (Done /\ failPoint = "coinit") => (calls.coInit = 1 /\ calls.coUninit = 0)

\* C3, witness: an attempt ended by an exception raised after the initialization
C3_Witness ==
    /\ Done
    /\ failPoint = "raised"
    /\ comInitialized
    /\ calls.coUninit = 1

\* C3 (as claimed): at every end of an attempt that reached the runtime
\* initialization, its failure included, the runtime has been released exactly once.
C3_Original ==
    (Done /\ calls.coInit > 0) => calls.coUninit = 1

\* C4: the runtime is never left initialized: the initialization count is never
\* negative (no release without an initialization), there is at most one
\* initialization and one release, and at every end of the call the count is 0
\* and the releases equal the successful initializations.
C4_RuntimeNeverLeaked ==
    /\ comDepth \in { 0, 1 }
    /\ calls.coInit \in { 0, 1 }
    /\ calls.coUninit \in { 0, 1 }
    /\ comDepth + calls.coUninit = (IF comInitialized THEN 1 ELSE 0)
    /\ Done => comDepth = 0

\* C4, witness: the keyboard was seen, no connection succeeded, the attempt has
\* ended with the runtime released
C4_Witness ==
    /\ Done
    /\ visible
    /\ failPoint = "connect"
    /\ calls.coInit = 1
    /\ calls.coUninit = 1
    /\ comDepth = 0

\* C5: each failure point has one error kind: no folder, no file or a directory
\* at the path end the attempt with TabTipNotFoundException; the shell-wait
\* timeout, the failed runtime initialization and the connection timeout end it
\* with TabTipActivationException.
C5_ErrorKindPerFailure ==
    (StartedKeyboard /\ Done)
        => /\ failPoint \in { "folder", "file" } => outcome = NotFound
           /\ pathTruth \in { "no_folder", "missing", "directory" } => outcome = NotFound
           /\ failPoint \in { "shell", "coinit", "connect" } => outcome = ActivationFailed

\* C5, witness: an attempt ended by the shell-wait timeout
C5_Witness ==
    /\ StartedKeyboard
    /\ Done
    /\ failPoint = "shell"
    /\ ~wfpResult
    /\ outcome = ActivationFailed

\* C6 (as claimed): whatever leaves StartTouchKeyboard as an error is a
\* TabTipNotFoundException or a TabTipActivationException.
C6_OnlyControllerErrors ==
    (StartedKeyboard /\ Done) => outcome \in { "returned", NotFound, ActivationFailed }

\* C7 (as claimed): WaitForProcess with timeout 0 returns what a probe of the
\* process table gives at the call: true if the process is listed, false if not.
C7_ZeroTimeoutReturnsProbe ==
    (entry = "WaitForProcess" /\ wfpTimeout = 0 /\ Done)
        => (wfpResult <=> entryTruth = "listed")

\* C8: WaitForProcess never runs longer than its timeout plus one poll interval:
\* the time since its start stays within timeout + 500 ms, in the loop and at
\* its return.
C8_WaitBoundedByTimeoutPlusPoll ==
    (entry = "WaitForProcess" \/ pc \in { "wfp_loop", "shell_checked" })
        => elapsed <= wfpTimeout + WAIT_POLL_MS

\* C8, witness: a WaitForProcess that timed out, its last sleep ending after the deadline
C8_Witness ==
    /\ entry = "WaitForProcess"
    /\ Done
    /\ ~wfpResult
    /\ wfpTimeout > 0
    /\ elapsed > wfpTimeout

\* C9: when the folder cannot be resolved or no regular file is at the path, the
\* attempt ends with TabTipNotFoundException after one lookup (one file check
\* at most) and before any shell wait, launch, settle delay, visibility probe,
\* runtime initialization or sleep.
C9_NotFoundBeforeAnyWait ==
    (StartedKeyboard /\ pathTruth \in { "no_folder", "missing", "directory" })
        => /\ Done
           /\ outcome = NotFound
           /\ calls.folder = 1
           /\ calls.attr = (IF pathTruth = "no_folder" THEN 0 ELSE 1)
           /\ calls.shellWait = 0
           /\ calls.launch = 0
           /\ calls.settle = 0
           /\ calls.visProbe = 0
           /\ calls.coInit = 0
           /\ elapsed = 0

\* C9, witness: the path names a directory and the attempt has ended
C9_Witness ==
    /\ StartedKeyboard
    /\ pathTruth = "directory"
    /\ Done
    /\ outcome = NotFound

\* C10: when the detector was false on every poll of the visibility budget, all
\* 40 polls were made, no runtime initialization, connection attempt, Toggle or
\* release follows, and the attempt returns success.
C10_NeverVisibleLeftOpen ==
    (StartedKeyboard /\ calls.launch = 1 /\ pc # "vis_loop" /\ ~visible)
        => /\ pc \in { "polled", "epilogue" } \/ Done
           /\ calls.visProbe * VISIBILITY_POLL_MS = Seconds(COM_SERVICE_TIMEOUT)
           /\ calls.coInit = 0
           /\ calls.create = 0
           /\ calls.toggle = 0
           /\ calls.release = 0
           /\ calls.coUninit = 0
           /\ comDepth = 0
           /\ ~comInitialized
           /\ exc = "none"
           /\ Done => outcome = "returned"

\* C10, witness: an attempt that launched, never saw the keyboard and returned
C10_Witness ==
    /\ StartedKeyboard
    /\ Done
    /\ calls.launch = 1
    /\ ~visible
    /\ outcome = "returned"


\* C11: when a connection attempt succeeds, Toggle is called exactly once on the
\* handle and the handle is released exactly once, while the runtime is still
\* initialized and before the call returns; the call then returns success
\* whatever Toggle returned.  When no connection attempt succeeds, Toggle is
\* never called and nothing is released.
C11_OneToggleOneRelease ==
    /\ pTip = "NULL" => calls.toggle = 0 /\ calls.release = 0
    /\ pTip # "NULL" => pc \in { "connected", "epilogue" } \/ Done
    /\ (pTip # "NULL" /\ pc = "connected")
          => calls.toggle = 0 /\ calls.release = 0 /\ comDepth = 1
    /\ (pTip # "NULL" /\ pc = "epilogue")
          => /\ calls.toggle = 1
             /\ calls.release = 1
             /\ comDepth = 1
             /\ calls.coUninit = 0
             /\ outcome = "running"
    /\ (pTip # "NULL" /\ Done)
          => /\ calls.toggle = 1
             /\ calls.release = 1
             /\ outcome = "returned"

\* A connection succeeded, Toggle returned a failure, the handle was released
\* once and the call returned success
C11_Witness ==
    /\ Done
    /\ pTip # "NULL"
    /\ calls.toggleFailed = 1
    /\ calls.release = 1
    /\ outcome = "returned"


\* C12: the startkeyboard handler returns 0 exactly when StartTouchKeyboard
\* returned normally (TabTip already running, keyboard never seen, or Toggle
\* issued), and a non-zero code when it threw TabTipNotFoundException,
\* TabTipActivationException or any other std::exception.
C12_ExitCodeReflectsOutcome ==
    pc \in { "exited", "escaped" }
        => /\ (exitCode = { 0 }) <=> (outcome = "returned")
           /\ outcome \in StdExceptions
                 => /\ pc = "exited"
                    /\ exitCode # { }
                    /\ 0 \notin exitCode

\* The handler returned non-zero for a TabTipNotFoundException
C12_Witness ==
    /\ pc = "exited"
    /\ outcome = NotFound
    /\ exitCode = { -1 }


\* C13: when an attempt ends after a Toggle on a connected service, the keyboard
\* is not on screen at the end, even if its visibility changed by itself between
\* the positive detection and the Toggle call.  Stated for the attempts the
\* claim singles out: the detector saw a keyboard that was on screen, the
\* keyboard was off screen by the time Toggle was called, and Toggle succeeded.
C13_HiddenAfterToggle ==
    ( /\ StartedKeyboard
      /\ Done
      /\ calls.toggle = 1
      /\ calls.seenOnScreen = 1
      /\ calls.toggleShowed = 1
      /\ calls.toggleFailed = 0 )
        => ~OnScreen(window)


\* C14: every call ends, by a return or by an exception, whatever the process
\* table, the window and the service do: each wait has a deadline and sleep_for
\* moves the clock towards it.
C14_EveryAttemptEnds == <>Done

\* C14, witness: an attempt that ran into the last deadline: no connection
\* within the budget, after the shell wait, the settle delay and the poll
C14_Witness ==
    /\ StartedKeyboard
    /\ Done
    /\ failPoint = "connect"
    /\ calls.create * CONNECT_RETRY_MS = Seconds(COM_SERVICE_TIMEOUT)


\* C15: the time an attempt has slept, all sleeps added up, never exceeds the
\* stage budgets added up: 30 s for the shell wait, at most 7 s for the settle
\* delay, 10 s for the visibility poll and 10 s for the connection loop; it
\* stays under 60 s.  Before the launch only the first budget can have been
\* spent, before the runtime initialization only the first three.
C15_SleptWithinBudgets ==
    StartedKeyboard
        => /\ calls.launch = 0
                 => meter.slept <= Seconds(SHELL_READY_TIMEOUT)
           /\ calls.coInit = 0
                 => meter.slept <= Seconds(SHELL_READY_TIMEOUT) + Seconds(7)
                                     + Seconds(COM_SERVICE_TIMEOUT)
           /\ meter.slept <= Seconds(SHELL_READY_TIMEOUT) + Seconds(7)
                               + Seconds(COM_SERVICE_TIMEOUT)
                               + Seconds(COM_SERVICE_TIMEOUT)
           /\ meter.slept < Seconds(60)

\* C15, witness: an attempt that went through all four waits, found no
\* connection and had slept more than 50 s when it ended
C15_Witness ==
    /\ StartedKeyboard
    /\ Done
    /\ failPoint = "connect"
    /\ meter.slept > Seconds(SHELL_READY_TIMEOUT) + Seconds(COM_SERVICE_TIMEOUT)
                       + Seconds(COM_SERVICE_TIMEOUT)


\* C16: two calls running at the same time are held apart by nothing but the
\* already-running check: a call launches at most once and never after its own
\* check found TabTip.exe in the table, and a call whose check did not find it
\* is not stopped by what the other call does.  So both can launch (the
\* witness): "at most one launch request" does not hold across calls.
C16_OnlyTheCheckPreventsLaunch ==
    \A p \in Attempts :
        /\ race.launches[p] <= 1
        /\ race.launches[p] = 1 <=> race.at[p] = "launched"
        /\ race.check[p] = "listed"
              => race.at[p] = "done" /\ race.launches[p] = 0
        /\ race.at[p] \in { "resolve", "wfp_loop", "shell_checked", "launched" }
              => race.check[p] \in { "absent", "unlisted" }

\* C16, witness: both calls made their check before any launched process had
\* started, and both issued a launch request
C16_Witness ==
    \A p \in Attempts : race.check[p] = "absent" /\ race.launches[p] = 1


\* C17: an attempt calls ShellExecuteW at most once, and only after its shell
\* wait saw explorer.exe; when the shell wait runs out after 30 s the attempt
\* ends with TabTipActivationException and has made no launch request, settle
\* delay, visibility poll or runtime initialization; the first visibility poll
\* comes only after the launch request and the settle delay that follows it.
C17_LaunchOnceAfterShell ==
    StartedKeyboard
        => /\ calls.shellWait <= 1
           /\ calls.launch <= 1
           /\ calls.settle = calls.launch
           /\ calls.launch = 1 => wfpResult /\ calls.shellWait = 1
           /\ (pc = "shell_checked" /\ ~wfpResult)
                 => elapsed >= Seconds(SHELL_READY_TIMEOUT)
           /\ (calls.shellWait = 1 /\ ~wfpResult
                 /\ pc \notin { "wfp_loop", "shell_checked" })
                 => /\ failPoint = "shell"
                    /\ calls.launch = 0
                    /\ calls.settle = 0
                    /\ calls.visProbe = 0
                    /\ calls.coInit = 0
                    /\ comDepth = 0
                    /\ pc = "catch" => exc = ActivationFailed
                    /\ Done => outcome = ActivationFailed
           /\ failPoint = "shell" => ~wfpResult
           /\ calls.visProbe > 0 => calls.launch = 1 /\ calls.settle = 1

\* C17, witness: the first visibility poll of an attempt, made after the shell
\* was seen, one launch request and one settle delay
C17_Witness ==
    /\ StartedKeyboard
    /\ wfpResult
    /\ calls.launch = 1
    /\ calls.settle = 1
    /\ calls.visProbe = 1


\* WaitForProcess has been called and has returned
WaitReturned ==
    \/ entry = "WaitForProcess" /\ Done
    \/ StartedKeyboard /\ calls.shellWait = 1 /\ pc # "wfp_loop"

\* C18: WaitForProcess takes no probe once now() - start has reached the
\* timeout; probe k+1 comes one 500 ms sleep after probe k; the first positive
\* probe is the last thing it does before it returns true; and it returns true
\* exactly when one of its probes was positive (so it returns false for a
\* process that is running when it gives up but was absent at every probe).
C18_ProbesBeforeDeadline ==
    /\ meter.probes > 0
          => /\ meter.lastProbeAt < wfpTimeout
             /\ meter.lastProbeAt = (meter.probes - 1) * WAIT_POLL_MS
    /\ pc = "wfp_loop"
          => /\ meter.positives = 0
             /\ elapsed = meter.probes * WAIT_POLL_MS
             /\ meter.slept = elapsed
    /\ meter.positives <= 1
    /\ WaitReturned => (wfpResult <=> meter.positives = 1)
    /\ (WaitReturned /\ wfpResult)
          => meter.slept >= meter.lastProbeAt
    /\ (WaitReturned /\ wfpResult /\ (pc = "shell_checked" \/ entry = "WaitForProcess"))
          => /\ elapsed = meter.lastProbeAt
             /\ meter.slept = meter.lastProbeAt
    /\ (WaitReturned /\ ~wfpResult)
          => /\ meter.probes * WAIT_POLL_MS >= wfpTimeout
             /\ \/ meter.probes = 0
                \/ meter.lastProbeAt + WAIT_POLL_MS >= wfpTimeout

\* C18, witness: WaitForProcess probed, slept past the deadline and returned
\* false although the process was running by then
C18_Witness ==
    /\ WaitReturned
    /\ ~wfpResult
    /\ meter.probes > 1
    /\ meter.missed


\* C19: the connection loop makes attempt k+1 one 250 ms sleep after attempt k
\* failed, makes no attempt after one that succeeded and none once 10 s have
\* passed (so at most 40), and when the 10 s pass without a success the attempt
\* ends with TabTipActivationException and Toggle is not called.
C19_ConnectCadenceAndBudget ==
    StartedKeyboard
        => /\ calls.create * CONNECT_RETRY_MS <= Seconds(COM_SERVICE_TIMEOUT)
           /\ pc = "conn_loop"
                 => /\ pTip = "NULL"
                    /\ elapsed = calls.create * CONNECT_RETRY_MS
           /\ (pTip # "NULL" \/ failPoint = "raised")
                 => /\ pc # "conn_loop"
                    /\ elapsed = (calls.create - 1) * CONNECT_RETRY_MS
                    /\ elapsed < Seconds(COM_SERVICE_TIMEOUT)
           /\ (pc = "connected" /\ pTip = "NULL")
                 => /\ elapsed >= Seconds(COM_SERVICE_TIMEOUT)
                    /\ elapsed = calls.create * CONNECT_RETRY_MS
           /\ failPoint = "connect"
                 => /\ pTip = "NULL"
                    /\ calls.create * CONNECT_RETRY_MS = Seconds(COM_SERVICE_TIMEOUT)
                    /\ calls.toggle = 0
                    /\ calls.release = 0
                    /\ pc = "catch" => exc = ActivationFailed
                    /\ Done => outcome = ActivationFailed

\* C19, witness: the connection succeeded at the last attempt the budget
\* allows, 9750 ms after the loop began
C19_Witness ==
    /\ StartedKeyboard
    /\ Done
    /\ pTip # "NULL"
    /\ (calls.create - 1) * CONNECT_RETRY_MS
         = Seconds(COM_SERVICE_TIMEOUT) - CONNECT_RETRY_MS


\* The polls so far, their times and what they found
PollsOnCadence ==
    StartedKeyboard
        => /\ calls.visProbe * VISIBILITY_POLL_MS <= Seconds(COM_SERVICE_TIMEOUT)
           /\ pc = "vis_loop"
                 => /\ ~visible
                    /\ elapsed = calls.visProbe * VISIBILITY_POLL_MS
           /\ visible => calls.visProbe >= 1 /\ pc # "vis_loop"
           /\ (pc = "polled" /\ visible)
                 => /\ elapsed = (calls.visProbe - 1) * VISIBILITY_POLL_MS
                    /\ elapsed < Seconds(COM_SERVICE_TIMEOUT)
           /\ (pc = "polled" /\ ~visible)
                 => /\ elapsed = calls.visProbe * VISIBILITY_POLL_MS
                    /\ elapsed >= Seconds(COM_SERVICE_TIMEOUT)

\* After a positive detection: no further poll, and the thread's next step is
\* the call of CoInitializeEx
NoPollAfterDetection ==
    /\ visible => calls'.visProbe = calls.visProbe
    /\ (visible /\ pc = "polled" /\ pc' # pc)
          => calls'.coInit = calls.coInit + 1

\* C20: the visibility poll calls the detector every 250 ms for at most 10 s (at
\* most 40 times) and stops at the first positive answer: the detector is not
\* called again in that attempt and the next thing the attempt does is
\* initialize the runtime.
C20_PollCadenceAndStop == [](PollsOnCadence) /\ [][NoPollAfterDetection]_vars

\* C20, witness: the detector answered true at the third poll; the attempt went
\* on to CoInitializeEx and ended with exactly three polls made
C20_Witness ==
    /\ StartedKeyboard
    /\ Done
    /\ visible
    /\ calls.visProbe = 3
    /\ calls.coInit = 1


\* C21: IsProcessRunning(name) returns true exactly when the snapshot could be
\* taken and some entry's executable name is name up to case; when the snapshot
\* cannot be taken it returns false whatever is running; every call takes
\* exactly one snapshot.
C21_TrueIffListedIgnoringCase ==
    probe.at = "returned"
        => /\ probe.found <=> ( /\ probe.snapshotOk
                                /\ Running(probe.table, probe.processName) )
           /\ ~probe.snapshotOk => ~probe.found
           /\ probe.snapshots = 1

\* C21, witness: the process runs under a name in another case, the snapshot
\* could not be taken, and the call returned false
C21_Witness ==
    /\ probe.at = "returned"
    /\ probe.processName = TABTIP_PROCESS_NAME
    /\ << 84, 65, 66, 84, 73, 80, 46, 69, 88, 69 >> \in probe.table
    /\ TABTIP_PROCESS_NAME \notin probe.table
    /\ ~probe.snapshotOk
    /\ ~probe.found


\* The runtime is initialized at most once, only after the detector answered
\* true, and whatever used the service did so after that initialization
RuntimeScope ==
    StartedKeyboard
        => /\ comDepth \in { 0, 1 }
           /\ calls.coInit <= 1
           /\ comDepth = 1
                 => /\ visible
                    /\ calls.visProbe >= 1
                    /\ comInitialized
                    /\ calls.coInit = 1
                    /\ calls.coUninit = 0
           /\ calls.coInit = 1 => visible
           /\ (calls.create > 0 \/ calls.toggle > 0 \/ calls.release > 0)
                 => comInitialized /\ calls.coInit = 1
           /\ calls.coUninit > 0 => comDepth = 0 /\ Done

\* A step that tries to connect, calls Toggle or releases the handle starts
\* and ends with the runtime initialized
UsesServiceInScope ==
    ( \/ calls'.create > calls.create
      \/ calls'.toggle > calls.toggle
      \/ calls'.release > calls.release )
        => comDepth = 1 /\ comDepth' = 1 /\ calls.coUninit = 0

\* C22: a connection attempt, a Toggle call and a release of the handle happen
\* only while the runtime is initialized, after CoInitializeEx succeeded and
\* before CoUninitialize; and the runtime is initialized only after the
\* detector answered true in that attempt.
C22_ServiceUsedInsideRuntimeScope ==
    [](RuntimeScope) /\ [][UsesServiceInScope]_vars

\* C22, witness: after two connection attempts, a Toggle and a release, the
\* runtime is still initialized and the detector had answered true
C22_Witness ==
    /\ StartedKeyboard
    /\ pc = "epilogue"
    /\ visible
    /\ calls.create = 2
    /\ calls.toggle = 1
    /\ calls.release = 1
    /\ comDepth = 1
    /\ calls.coUninit = 0


\* C23: GetDisplaySize decodes the record SetDisplaySize wrote (height in the
\* upper 32 bits, width in the lower 32) into the width and height that were
\* set, for every pair of 32-bit values; and it returns a value only when the
\* query gave status 0 and exactly 8 bytes.
C23_DisplaySizeRoundTrip ==
    panel.at = "got"
        => /\ panel.result # { }
                 => panel.status = 0 /\ panel.bufferSize = SIZEOF_ULONGLONG
           /\ (panel.ours /\ panel.status = 0)
                 => /\ ToUINT(panel.data) = panel.dims.WidthMm
                    /\ SubSeq(panel.data, 5, 8) = panel.dims.HeightMm
                    /\ panel.result = { panel.dims }

\* C23, witness: width 0xFFFFFFFF and height 0x80000000 were set and read back
C23_Witness ==
    /\ panel.at = "got"
    /\ panel.ours
    /\ panel.dims.WidthMm = << 255, 255, 255, 255 >>
    /\ panel.dims.HeightMm = << 0, 0, 0, 128 >>
    /\ panel.result = { panel.dims }

=============================================================================
